---- MODULE Spec2Model ----
(***************************************************************************)
(* A model of src/app.py, the Fundline / Partner ("Excel") provision       *)
(* reconciliation pipeline:                                                *)
(*   read_files_from_upload, set_correct_headers, rename_columns,          *)
(*   filter_valid_rows, convert_date_column, match_files, compare_data,    *)
(*   apply_conditional_formatting and the "Run Comparison" handler.        *)
(*                                                                         *)
(* Cell values are tagged records (a pandas cell is a str, a number, a     *)
(* Timestamp or NaN/None/NaT).  A DataFrame is a record of its column      *)
(* labels and its rows, both sequences.  Calls of the logging module are   *)
(* log statements without effect on the program's data and are not part    *)
(* of the state (app.py calls logging without an import of it in the file; *)
(* the model takes the module to be there).                                *)
(***************************************************************************)
EXTENDS Integers, Sequences, FiniteSets, TLC

VARIABLES
    \* apply_conditional_formatting: the worksheet and its rules
    fmt_pc, ws_rows, lower_threshold, upper_threshold, cf_rules,
    \* a DataFrame handed to set_correct_headers, rename_columns or
    \* filter_valid_rows, and what the calls returned
    tf_pc, df_in, df_out, df_twice,
    \* match_files: the two collections of file names (dict keys, in
    \* insertion order), what fuzz.partial_ratio answers where the model
    \* leaves it open, and the pairs returned
    mf_pc, fundline_names, excel_names, score_env, matched_files,
    \* read_files_from_upload: the uploads, the loop position, the locals
    \* all_sheets_df and header_set, the result files_data, and the sheets
    \* set_correct_headers was called on
    rd_pc, uploaded_files, file_idx, sheet_idx, all_sheets_df, header_set,
    files_data, header_log,
    \* the "Run Comparison" handler and compare_data
    run_pc, fundline_uploads, excel_uploads, fundline_data, excel_data,
    pair_idx, pair_log, comparison_files, shown

fmtVars == <<fmt_pc, ws_rows, lower_threshold, upper_threshold, cf_rules>>
tfVars == <<tf_pc, df_in, df_out, df_twice>>

mfVars == <<mf_pc, fundline_names, excel_names, score_env, matched_files>>

rdVars == <<rd_pc, uploaded_files, file_idx, sheet_idx, all_sheets_df,
           header_set, files_data, header_log>>
runVars == <<run_pc, fundline_uploads, excel_uploads, fundline_data,
            excel_data, pair_idx, pair_log, comparison_files, shown>>

vars == <<fmtVars, tfVars, mfVars, rdVars, runVars>>
exceptFmt == <<tfVars, mfVars, rdVars, runVars>>
exceptTf == <<fmtVars, mfVars, rdVars, runVars>>
exceptMf == <<fmtVars, tfVars, rdVars, runVars>>
exceptRd == <<fmtVars, tfVars, mfVars, runVars>>

(***************************************************************************)
(* Cells                                                                   *)
(***************************************************************************)
StrCell(s) == [t |-> "str", s |-> s]
NumCell(n) == [t |-> "num", n |-> n]
DateCell(d) == [t |-> "date", d |-> d]
NaN == [t |-> "nan"]

IsStr(c) == c.t = "str"
IsNull(c) == c.t = "nan"

Range(s) == {s[i] : i \in DOMAIN s}

RECURSIVE SeqsUpTo(_, _)
SeqsUpTo(S, n) ==
    IF n = 0 THEN {<<>>}
    ELSE LET shorter == SeqsUpTo(S, n - 1)
         IN shorter \cup {Append(q, x) : q \in {r \in shorter : Len(r) = n - 1}, x \in S}

EmptyFrame == [columns |-> <<>>, rows |-> <<>>]

TfOff ==
    /\ tf_pc = "off" /\ df_in = EmptyFrame /\ df_out = EmptyFrame
    /\ df_twice = EmptyFrame

MfOff ==
    /\ mf_pc = "off" /\ fundline_names = <<>> /\ excel_names = <<>>
    /\ score_env = <<>> /\ matched_files = <<>>

RdOff ==
    /\ rd_pc = "off" /\ uploaded_files = <<>> /\ file_idx = 0 /\ sheet_idx = 0
    /\ all_sheets_df = EmptyFrame /\ header_set = FALSE
    /\ files_data = <<>> /\ header_log = {}

RunOff ==
    /\ run_pc = "off" /\ fundline_uploads = <<>> /\ excel_uploads = <<>>
    /\ fundline_data = <<>> /\ excel_data = <<>> /\ pair_idx = 0
    /\ pair_log = <<>> /\ comparison_files = <<>> /\ shown = <<>>

(***************************************************************************)
(* apply_conditional_formatting (src/app.py 188-207) and its call sites in *)
(* compare_data (177-178).  The thresholds reach the workbook as the       *)
(* strings str(lower_threshold) and str(upper_threshold); the spreadsheet  *)
(* parses the rule's formula back to a number when it evaluates the rule.  *)
(***************************************************************************)
MaxSheetRows == 2
LowerDefault == -20
UpperDefault == 20

DigitChar == <<"0", "1", "2", "3", "4", "5", "6", "7", "8", "9">>

RECURSIVE NatStr(_)
NatStr(n) ==
    IF n < 10 THEN <<DigitChar[n + 1]>>
    ELSE Append(NatStr(n \div 10), DigitChar[(n % 10) + 1])

\* Python's str() of an int
PyStr(n) == IF n < 0 THEN <<"-">> \o NatStr(-n) ELSE NatStr(n)

DigitVal(c) == (CHOOSE i \in 1..10 : DigitChar[i] = c) - 1

RECURSIVE NatVal(_)
NatVal(s) ==
    IF s = <<>> THEN 0
    ELSE 10 * NatVal(SubSeq(s, 1, Len(s) - 1)) + DigitVal(s[Len(s)])

\* the value the spreadsheet gives a rule's formula text
FormulaValue(s) ==
    IF s # <<>> /\ s[1] = "-" THEN -NatVal(Tail(s)) ELSE NatVal(s)

\* CellIsRule(operator=..., formula=[str(threshold)], fill=red_fill)
CellIsRule(op, threshold) == [operator |-> op, formula |-> PyStr(threshold)]

\* the rules apply_conditional_formatting adds over {column}2:{column}{end_row}
ConditionalRules(rows, lo, hi) ==
    LET end_row == Len(rows) + 1
    IN  { [rule |-> CellIsRule("lessThan", lo), first |-> 2, last |-> end_row],
          [rule |-> CellIsRule("greaterThan", hi), first |-> 2, last |-> end_row] }

RuleFiresInclusive(r, k, d) ==
    /\ r.first <= k /\ k <= r.last
    /\ IF r.rule.operator = "lessThan" THEN d <= FormulaValue(r.rule.formula)
       ELSE d >= FormulaValue(r.rule.formula)

\* whether rule r paints worksheet row k, whose Difference cell holds d
RuleFires(r, k, d) ==
    /\ r.first <= k /\ k <= r.last
    /\ IF r.rule.operator = "lessThan" THEN d < FormulaValue(r.rule.formula)
       ELSE d > FormulaValue(r.rule.formula)

\* data row i of the frame is worksheet row i + 1 (row 1 holds the header)
BelowFlag(i) ==
    \E r \in cf_rules : r.rule.operator = "lessThan" /\ RuleFires(r, i + 1, ws_rows[i])
AboveFlag(i) ==
    \E r \in cf_rules : r.rule.operator = "greaterThan" /\ RuleFires(r, i + 1, ws_rows[i])
Flagged(i) == \E r \in cf_rules : RuleFires(r, i + 1, ws_rows[i])

Classification(i) ==
    IF BelowFlag(i) THEN "below_threshold"
    ELSE IF AboveFlag(i) THEN "above_threshold"
    ELSE "within_tolerance"

ThresholdValues == {LowerDefault, UpperDefault, 0, -1}
\* differences at, just below and just above every threshold
DiffValues == UNION {{th - 1, th, th + 1} : th \in ThresholdValues}

FmtOff ==
    /\ fmt_pc = "off" /\ ws_rows = <<>> /\ cf_rules = {}
    /\ lower_threshold = 0 /\ upper_threshold = 0

FmtInit ==
    /\ TfOff /\ MfOff /\ RdOff /\ RunOff
    /\ fmt_pc = "start"
    /\ ws_rows = <<>>
    /\ cf_rules = {}
    /\ lower_threshold \in ThresholdValues
    /\ upper_threshold \in ThresholdValues

\* the sheet written by to_excel: one Difference cell per joined row
WriteSheet ==
    /\ fmt_pc = "start"
    /\ \E rows \in SeqsUpTo(DiffValues, MaxSheetRows) :
          /\ rows # <<>>
          /\ ws_rows' = rows
    /\ fmt_pc' = "written"
    /\ UNCHANGED <<lower_threshold, upper_threshold, cf_rules, exceptFmt>>

ApplyConditionalFormatting ==
    /\ fmt_pc = "written"
    /\ cf_rules' = cf_rules \cup ConditionalRules(ws_rows, lower_threshold, upper_threshold)
    /\ fmt_pc' = "formatted"
    /\ UNCHANGED <<ws_rows, lower_threshold, upper_threshold, exceptFmt>>

FmtNext == WriteSheet \/ ApplyConditionalFormatting

SpecFormat == FmtInit /\ [][FmtNext]_vars

\* C1: after formatting, every joined row is flagged below iff its difference
\* is < lower_threshold, above iff it is > upper_threshold, and is within
\* tolerance otherwise; a difference equal to a threshold of a band
\* lower <= upper (the defaults -20, 20 among them) is not flagged.
C1_Classification ==
    fmt_pc = "formatted" =>
        \A i \in DOMAIN ws_rows :
            LET d == ws_rows[i]
            IN  /\ BelowFlag(i) <=> d < lower_threshold
                /\ AboveFlag(i) <=> d > upper_threshold
                /\ Classification(i) = "within_tolerance"
                      <=> ~(d < lower_threshold) /\ ~(d > upper_threshold)
                /\ Flagged(i) <=> Classification(i) # "within_tolerance"
                /\ (lower_threshold <= upper_threshold
                    /\ d \in {lower_threshold, upper_threshold})
                      => Classification(i) = "within_tolerance" /\ ~Flagged(i)

\* a formatted sheet under the defaults holding both boundary values and a
\* flagged value
C1_Witness ==
    /\ fmt_pc = "formatted"
    /\ lower_threshold = LowerDefault /\ upper_threshold = UpperDefault
    /\ ws_rows = <<LowerDefault, UpperDefault + 1>>
    /\ ~Flagged(1) /\ Flagged(2)

(***************************************************************************)
(* column_mappings (src/app.py 11-24): canonical name -> source headers,   *)
(* in the dict's insertion order.                                          *)
(***************************************************************************)
column_mappings == <<
    [new_name |-> "Isin Code",
     old_names |-> <<"ISIN", "Isin", "Share ISIN Reference",
                     "FINANZINSTRUMENT_IDENT", "Text23">>],
    [new_name |-> "Provision",
     old_names |-> <<"Comm. Amount", "Provision", "Betrag (€)", "Vergütung",
                     "EURMonat",
                     "Client Trailer Fees Amount In Consolidated Currency",
                     "Amount In Agreement Ccy", "Bepro",
                     "Provisionsbetrag in Währung", "Fee", "BPROV", "BpkEUR",
                     "Kommissionsbetrag", "Commission Due Payment CCY",
                     "Fee (Payment Currency)", "Amount In Partner Currency",
                     "Betrag (EUR)">>],
    [new_name |-> "Date",
     old_names |-> <<"Date", "Datum", "Booking Date", "End-Datum",
                     "Period End Date", "Holding as of", "STICHTAG", "Period",
                     "Datum_str", "Positionsdatum", "Stichtag",
                     "Retrocession Date">>] >>

\* every header of every list: "for headers in column_mappings.values()
\* for header in headers"
AllHeaders(mappings) ==
    UNION {Range(mappings[m].old_names) : m \in DOMAIN mappings}

(***************************************************************************)
(* set_correct_headers (src/app.py 55-62)                                  *)
(***************************************************************************)
\* any(header in row.values ...): some cell of the row equals a header
RowHasHeader(row, mappings) ==
    \E header \in AllHeaders(mappings) : StrCell(header) \in Range(row)

DropRow(rows, i) ==
    [k \in 1..(Len(rows) - 1) |-> IF k < i THEN rows[k] ELSE rows[k + 1]]

\* the mutant keeps the promoted row among the data rows
HeaderPromoteKeepRow(df, i) == [columns |-> df.rows[i], rows |-> df.rows]

\* df.columns = df.iloc[i]; df = df.drop(i).reset_index(drop=True)
HeaderPromote(df, i) == [columns |-> df.rows[i], rows |-> DropRow(df.rows, i)]

\* for i, row in df.iterrows(): the first matching row returns
RECURSIVE HeaderScan(_, _, _)
HeaderScan(df, mappings, i) ==
    IF i > Len(df.rows) THEN df
    ELSE IF RowHasHeader(df.rows[i], mappings) THEN HeaderPromote(df, i)
    ELSE HeaderScan(df, mappings, i + 1)

set_correct_headers(df, mappings) == HeaderScan(df, mappings, 1)

(***************************************************************************)
(* rename_columns (src/app.py 64-72)                                       *)
(***************************************************************************)
EmptyDict == [k \in {} |-> ""]
DictPut(d, k, v) == [x \in (DOMAIN d) \cup {k} |-> IF x = k THEN v ELSE d[x]]

\* for old_name in old_names: if old_name in df.columns: rename_dict[...] = ...
\* the mutant fills the dict the wrong way round
RECURSIVE RenameInnerReversed(_, _, _, _)
RenameInnerReversed(rename_dict, entry, k, columns) ==
    IF k > Len(entry.old_names) THEN rename_dict
    ELSE RenameInnerReversed(
             IF StrCell(entry.old_names[k]) \in Range(columns)
             THEN DictPut(rename_dict, entry.new_name, entry.old_names[k])
             ELSE rename_dict,
             entry, k + 1, columns)

RECURSIVE RenameInner(_, _, _, _)
RenameInner(rename_dict, entry, k, columns) ==
    IF k > Len(entry.old_names) THEN rename_dict
    ELSE RenameInner(
             IF StrCell(entry.old_names[k]) \in Range(columns)
             THEN DictPut(rename_dict, entry.old_names[k], entry.new_name)
             ELSE rename_dict,
             entry, k + 1, columns)

\* for new_name, old_names in column_mappings.items()
RECURSIVE RenameOuter(_, _, _, _)
RenameOuter(rename_dict, mappings, m, columns) ==
    IF m > Len(mappings) THEN rename_dict
    ELSE RenameOuter(RenameInner(rename_dict, mappings[m], 1, columns),
                     mappings, m + 1, columns)

RenameDict(columns, mappings) == RenameOuter(EmptyDict, mappings, 1, columns)

\* df.rename(columns=rename_dict): a label that is a key is replaced
RenameLabels(columns, rename_dict) ==
    [i \in DOMAIN columns |->
        IF IsStr(columns[i]) /\ columns[i].s \in DOMAIN rename_dict
        THEN StrCell(rename_dict[columns[i].s])
        ELSE columns[i]]

rename_columns(df, mappings) ==
    [columns |-> RenameLabels(df.columns, RenameDict(df.columns, mappings)),
     rows |-> df.rows]

(***************************************************************************)
(* filter_valid_rows (src/app.py 74-79)                                    *)
(***************************************************************************)
\* the characters of the identifier strings the tables of this model hold
Chars(s) ==
    CASE s = "" -> <<>>
      [] s = "  " -> <<" ", " ">>
      [] s = "DE01" -> <<"D", "E", "0", "1">>
      [] s = " DE01 " -> <<" ", "D", "E", "0", "1", " ">>
      [] s = "AT02" -> <<"A", "T", "0", "2">>
      [] s = "FR03" -> <<"F", "R", "0", "3">>

Whitespace == {" ", "\t", "\n", "\r"}

RECURSIVE LStrip(_)
LStrip(cs) ==
    IF cs # <<>> /\ cs[1] \in Whitespace THEN LStrip(Tail(cs)) ELSE cs

RECURSIVE RStrip(_)
RStrip(cs) ==
    IF cs # <<>> /\ cs[Len(cs)] \in Whitespace
    THEN RStrip(SubSeq(cs, 1, Len(cs) - 1)) ELSE cs

\* str.strip()
Strip(cs) == RStrip(LStrip(cs))

HasColumn(df, name) == StrCell(name) \in Range(df.columns)
ColumnIndex(df, name) == CHOOSE i \in DOMAIN df.columns : df.columns[i] = StrCell(name)

\* boolean indexing: the rows that are in kept, in their order
FilterRows(rows, kept) ==
    LET F[i \in 0..Len(rows)] ==
            IF i = 0 THEN <<>>
            ELSE IF rows[i] \in kept THEN Append(F[i - 1], rows[i]) ELSE F[i - 1]
    IN  F[Len(rows)]

\* the mutant tests the identifier without stripping it
IsinIsValidNoStrip(x) == IsStr(x) /\ Chars(x.s) # <<>>

\* lambda x: isinstance(x, str) and x.strip() != ""
IsinIsValid(x) == IsStr(x) /\ Strip(Chars(x.s)) # <<>>

filter_valid_rows(df) ==
    IF HasColumn(df, "Isin Code") /\ HasColumn(df, "Date")
    THEN LET ic == ColumnIndex(df, "Isin Code")
             dc == ColumnIndex(df, "Date")
             \* df.dropna(subset=['Isin Code', 'Date'])
             not_na == FilterRows(df.rows,
                           {row \in Range(df.rows) :
                               ~IsNull(row[ic]) /\ ~IsNull(row[dc])})
         IN  [columns |-> df.columns,
              rows |-> FilterRows(not_na,
                           {row \in Range(not_na) : IsinIsValid(row[ic])})]
    ELSE df

(***************************************************************************)
(* set_correct_headers on the frames pd.read_excel(header=None) returns    *)
(***************************************************************************)
MaxRawRows == 3

\* a header of 'Isin Code', a header of 'Date', a string that is no header
\* (headers are compared case-sensitively), a number
RawCells == {StrCell("ISIN"), StrCell("Datum"), StrCell("isin"), NumCell(7)}
RawRowSet == {<<a, b>> : a \in RawCells, b \in RawCells}
\* header=None: the columns are 0, 1, ...
RawColumns(width) == [j \in 1..width |-> NumCell(j - 1)]
RawFrames ==
    {[columns |-> RawColumns(2), rows |-> rows] :
        rows \in SeqsUpTo(RawRowSet, MaxRawRows)}

HdrInit ==
    /\ FmtOff /\ MfOff /\ RdOff /\ RunOff
    /\ tf_pc = "raw"
    /\ df_in \in RawFrames
    /\ df_out = EmptyFrame
    /\ df_twice = EmptyFrame

SetCorrectHeaders ==
    /\ tf_pc = "raw"
    /\ df_out' = set_correct_headers(df_in, column_mappings)
    /\ tf_pc' = "headed"
    /\ UNCHANGED <<df_in, df_twice, exceptTf>>

SpecHeaders == HdrInit /\ [][SetCorrectHeaders]_vars

C8_SynonymCells ==
    UNION {{StrCell(column_mappings[m].old_names[k]) :
                k \in DOMAIN column_mappings[m].old_names} :
           m \in DOMAIN column_mappings}
C8_IsHeaderRow(row) == \E j \in DOMAIN row : row[j] \in C8_SynonymCells

\* C8: the header is the FIRST row holding a cell equal to a synonym of any
\* canonical field; its cells become the column names, exactly that row is
\* removed and the other rows keep their order; with no such row the table
\* is returned unchanged.
C8_FirstHeaderRow ==
    tf_pc = "headed" =>
        IF \E i \in DOMAIN df_in.rows : C8_IsHeaderRow(df_in.rows[i])
        THEN \E i \in DOMAIN df_in.rows :
                /\ C8_IsHeaderRow(df_in.rows[i])
                /\ \A k \in 1..(i - 1) : ~C8_IsHeaderRow(df_in.rows[k])
                /\ df_out.columns = df_in.rows[i]
                /\ Len(df_out.rows) = Len(df_in.rows) - 1
                /\ \A k \in 1..(i - 1) : df_out.rows[k] = df_in.rows[k]
                /\ \A k \in i..Len(df_out.rows) : df_out.rows[k] = df_in.rows[k + 1]
        ELSE df_out = df_in

\* the second of three rows is the first with a header; a later row holds a
\* header too and stays a data row
C8_Witness ==
    /\ tf_pc = "headed"
    /\ df_in.rows = << <<StrCell("isin"), NumCell(7)>>,
                       <<StrCell("Datum"), StrCell("isin")>>,
                       <<StrCell("ISIN"), NumCell(7)>> >>
    /\ df_out.columns = <<StrCell("Datum"), StrCell("isin")>>
    /\ df_out.rows = << <<StrCell("isin"), NumCell(7)>>,
                        <<StrCell("ISIN"), NumCell(7)>> >>

(***************************************************************************)
(* rename_columns applied once and twice                                   *)
(***************************************************************************)
MaxColumns == 3

ColumnLabels ==
    {StrCell("ISIN"), StrCell("Isin"), StrCell("Fee"), StrCell("Provision"),
     StrCell("Datum"), StrCell("Date"), StrCell("Isin Code"), StrCell("Other"),
     NumCell(0)}

RnInit ==
    /\ FmtOff /\ MfOff /\ RdOff /\ RunOff
    /\ tf_pc = "named"
    /\ \E columns \in SeqsUpTo(ColumnLabels, MaxColumns) :
          df_in = [columns |-> columns,
                   rows |-> << [j \in DOMAIN columns |-> NumCell(j)] >>]
    /\ df_out = EmptyFrame
    /\ df_twice = EmptyFrame

RenameOnce ==
    /\ tf_pc = "named"
    /\ df_out' = rename_columns(df_in, column_mappings)
    /\ tf_pc' = "once"
    /\ UNCHANGED <<df_in, df_twice, exceptTf>>

RenameTwice ==
    /\ tf_pc = "once"
    /\ df_twice' = rename_columns(df_out, column_mappings)
    /\ tf_pc' = "twice"
    /\ UNCHANGED <<df_in, df_out, exceptTf>>

RnNext == RenameOnce \/ RenameTwice

SpecRename == RnInit /\ [][RnNext]_vars

C9_IsAlias(c) ==
    IsStr(c) /\ \E m \in DOMAIN column_mappings :
                    \E k \in DOMAIN column_mappings[m].old_names :
                        column_mappings[m].old_names[k] = c.s

\* C9: renaming twice yields the column names renaming once yields, also
\* when aliases of one canonical field co-occur, and a column whose name is
\* no alias is left unchanged by either application.
C9_RenameIdempotent ==
    tf_pc = "twice" =>
        /\ df_twice.columns = df_out.columns
        /\ DOMAIN df_out.columns = DOMAIN df_in.columns
        /\ \A i \in DOMAIN df_in.columns :
              ~C9_IsAlias(df_in.columns[i]) =>
                  /\ df_out.columns[i] = df_in.columns[i]
                  /\ df_twice.columns[i] = df_in.columns[i]

\* two aliases of 'Isin Code' co-occur beside a column that is no alias
C9_Witness ==
    /\ tf_pc = "twice"
    /\ df_in.columns = <<StrCell("ISIN"), StrCell("Isin"), StrCell("Other")>>
    /\ df_out.columns = <<StrCell("Isin Code"), StrCell("Isin Code"), StrCell("Other")>>
    /\ df_twice.columns = df_out.columns

(***************************************************************************)
(* filter_valid_rows on tables with unique column names                    *)
(***************************************************************************)
MaxFilterRows == 2

IdentifierCells ==
    {StrCell("DE01"), StrCell(" DE01 "), StrCell("  "), StrCell(""),
     NumCell(5), NaN}
PeriodCells == {DateCell(1), StrCell("DE01"), NaN}

\* [columns, rows]: the identifier is in the first column, or in the second
FilterFrames ==
    {[columns |-> columns, rows |-> rows] :
        columns \in {<<StrCell("Isin Code"), StrCell("Date")>>,
                     <<StrCell("Isin Code"), StrCell("Provision")>>,
                     <<StrCell("ISIN"), StrCell("Date")>>},
        rows \in SeqsUpTo({<<a, b>> : a \in IdentifierCells, b \in PeriodCells},
                          MaxFilterRows)}
    \cup
    {[columns |-> <<StrCell("Date"), StrCell("Isin Code")>>, rows |-> rows] :
        rows \in SeqsUpTo({<<b, a>> : a \in IdentifierCells, b \in PeriodCells},
                          MaxFilterRows)}

FlInit ==
    /\ FmtOff /\ MfOff /\ RdOff /\ RunOff
    /\ tf_pc = "mapped"
    /\ df_in \in FilterFrames
    /\ df_out = EmptyFrame
    /\ df_twice = EmptyFrame

FilterValidRows ==
    /\ tf_pc = "mapped"
    /\ df_out' = filter_valid_rows(df_in)
    /\ tf_pc' = "filtered"
    /\ UNCHANGED <<df_in, df_twice, exceptTf>>

SpecFilter == FlInit /\ [][FilterValidRows]_vars

\* a row's identifier and period: the cell under the canonical column, null
\* when the table has no such column
C7_Field(df, row, name) ==
    IF \E j \in DOMAIN df.columns : df.columns[j] = StrCell(name)
    THEN row[CHOOSE j \in DOMAIN df.columns : df.columns[j] = StrCell(name)]
    ELSE NaN
C7_Textual(c) ==
    c.t = "str" /\ \E k \in DOMAIN Chars(c.s) : Chars(c.s)[k] \notin Whitespace
C7_RowValid(row) ==
    /\ C7_Textual(C7_Field(df_in, row, "Isin Code"))
    /\ C7_Field(df_in, row, "Date").t # "nan"
\* the valid rows of a table, in their order and as they are
RECURSIVE C7_ValidRows(_)
C7_ValidRows(rows) ==
    IF rows = <<>> THEN <<>>
    ELSE (IF C7_RowValid(Head(rows)) THEN <<Head(rows)>> ELSE <<>>)
             \o C7_ValidRows(Tail(rows))

C7_HasBoth ==
    /\ \E j \in DOMAIN df_in.columns : df_in.columns[j] = StrCell("Isin Code")
    /\ \E j \in DOMAIN df_in.columns : df_in.columns[j] = StrCell("Date")

\* C7 as claimed: for EVERY table, a row is in the output iff its identifier
\* is a string that is non-empty after trimming and its period is non-null,
\* the survivors unchanged and in their order.
C7_EveryTable ==
    tf_pc = "filtered" =>
        /\ df_out.columns = df_in.columns
        /\ df_out.rows = C7_ValidRows(df_in.rows)

\* C7 as amended: the same for a table that has both an 'Isin Code' and a
\* 'Date' column; a table lacking either is returned unchanged, whatever its
\* rows hold.
C7_TablesWithBothColumns ==
    tf_pc = "filtered" =>
        /\ df_out.columns = df_in.columns
        /\ C7_HasBoth => df_out.rows = C7_ValidRows(df_in.rows)
        /\ ~C7_HasBoth => df_out.rows = df_in.rows

\* a table with both columns: a blank identifier is dropped, a padded one
\* survives as it is
C7_Witness ==
    /\ tf_pc = "filtered"
    /\ df_in.columns = <<StrCell("Date"), StrCell("Isin Code")>>
    /\ df_in.rows = << <<DateCell(1), StrCell("  ")>>, <<DateCell(1), StrCell(" DE01 ")>> >>
    /\ df_out.rows = << <<DateCell(1), StrCell(" DE01 ")>> >>

(***************************************************************************)
(* match_files (src/app.py 100-110).  File names are sequences of          *)
(* characters.  fuzz.partial_ratio is a library function whose value       *)
(* depends on the string-matching backend installed; the model fixes it    *)
(* where every backend agrees (an empty string scores 0, equal strings     *)
(* score 100, strings without a common character score 0) and takes it     *)
(* from score_env, chosen freely, everywhere else.                         *)
(***************************************************************************)
MatchThreshold == 80
MaxFundline == 2
MaxExcel == 2

UpperLetters == <<"A", "B", "C", "D", "E", "F", "G", "H", "I", "J", "K", "L", "M",
                  "N", "O", "P", "Q", "R", "S", "T", "U", "V", "W", "X", "Y", "Z">>
LowerLetters == <<"a", "b", "c", "d", "e", "f", "g", "h", "i", "j", "k", "l", "m",
                  "n", "o", "p", "q", "r", "s", "t", "u", "v", "w", "x", "y", "z">>

LowerChar(c) ==
    IF \E i \in DOMAIN UpperLetters : UpperLetters[i] = c
    THEN LowerLetters[CHOOSE i \in DOMAIN UpperLetters : UpperLetters[i] = c]
    ELSE c

\* str.lower()
LowerStr(cs) == [i \in DOMAIN cs |-> LowerChar(cs[i])]

\* os.path.splitext(p)[0] of a name without directory separators: the name
\* up to its last dot, unless only dots precede that dot
SplitExtRoot(cs) ==
    LET dots == {i \in DOMAIN cs : cs[i] = "."}
    IN  IF dots = {} THEN cs
        ELSE LET dotIndex == CHOOSE i \in dots : \A j \in dots : j <= i
             IN  IF \E k \in 1..(dotIndex - 1) : cs[k] # "."
                 THEN SubSeq(cs, 1, dotIndex - 1)
                 ELSE cs

\* os.path.splitext(f)[0].lower()
FileBase(name) == LowerStr(SplitExtRoot(name))

WordChars == Range(UpperLetters) \cup Range(LowerLetters) \cup Range(DigitChar) \cup {"_"}

\* fuzzywuzzy's default processor, applied by process.extractOne to the
\* query and to every choice: non-word characters become spaces, then lower
\* and strip
FullProcess(cs) ==
    Strip(LowerStr([i \in DOMAIN cs |-> IF cs[i] \in WordChars THEN cs[i] ELSE " "]))

ScoreDecided(a, b) == a = <<>> \/ b = <<>> \/ a = b \/ Range(a) \cap Range(b) = {}

\* fuzz.partial_ratio(a, b), 0..100
PartialRatio(a, b, env) ==
    IF a = <<>> \/ b = <<>> THEN 0
    ELSE IF a = b THEN 100
    ELSE IF Range(a) \cap Range(b) = {} THEN 0
    ELSE env[<<a, b>>]

ChoiceScore(query, choice, env) ==
    PartialRatio(FullProcess(query), FullProcess(choice), env)

\* process.extractOne(query, choices, scorer=fuzz.partial_ratio): max() over
\* the (choice, score) pairs in list order returns the first of the best
ExtractOne(query, choices, env) ==
    LET best == CHOOSE i \in DOMAIN choices :
                    /\ \A j \in DOMAIN choices :
                          ChoiceScore(query, choices[j], env)
                              <= ChoiceScore(query, choices[i], env)
                    /\ \A j \in 1..(i - 1) :
                          ChoiceScore(query, choices[j], env)
                              < ChoiceScore(query, choices[i], env)
    IN  [choice |-> choices[best], score |-> ChoiceScore(query, choices[best], env)]

ScorePassesInclusive(score) == score >= MatchThreshold

\* if score > 80
ScorePasses(score) == score > MatchThreshold

\* next(f for f in excel_files if os.path.splitext(f)[0].lower() == best_match)
FirstWithBase(excel_files, best_match) ==
    excel_files[CHOOSE i \in DOMAIN excel_files :
                    /\ FileBase(excel_files[i]) = best_match
                    /\ \A j \in 1..(i - 1) : FileBase(excel_files[j]) # best_match]

\* the loop over fundline_files, from position k with the pairs so far
RECURSIVE MatchLoop(_, _, _, _, _)
MatchLoop(fundline_files, excel_files, env, k, matched) ==
    IF k > Len(fundline_files) THEN matched
    ELSE LET fundline_base == FileBase(fundline_files[k])
             choices == [i \in DOMAIN excel_files |-> FileBase(excel_files[i])]
             one == ExtractOne(fundline_base, choices, env)
         IN  MatchLoop(fundline_files, excel_files, env, k + 1,
                 IF ScorePasses(one.score)
                 THEN Append(matched,
                             <<fundline_files[k], FirstWithBase(excel_files, one.choice)>>)
                 ELSE matched)

\* with no choices extractOne has no (choice, score) pair to return and the
\* unpacking in line 105 raises
MatchRaises(fundline_files, excel_files) ==
    fundline_files # <<>> /\ excel_files = <<>>

match_files(fundline_files, excel_files, env) ==
    MatchLoop(fundline_files, excel_files, env, 1, <<>>)

DistinctSeqs(S, n) ==
    {q \in SeqsUpTo(S, n) : \A i, j \in DOMAIN q : i # j => q[i] # q[j]}

FundlineNamePool ==
    { <<"Q", "1", ".", "x", "l", "s", "x">>,
      <<"q", "1", "_", "f", ".", "x", "l", "s", "x">> }
ExcelNamePool ==
    { <<"q", "1", ".", "X", "L", "S", "X">>,
      <<"Q", "1", ".", "v", "2", ".", "x", "l", "s", "x">>,
      <<"Q", "1", ".", "x", "l", "s", "x">>,
      <<"z", "z", ".", "x", "l", "s", "x">> }

\* the scores around the threshold (equal names score 100)
ScoreValues == {MatchThreshold - 1, MatchThreshold, MatchThreshold + 1}

UndecidedPairs(fs, es) ==
    {p \in {<<FullProcess(FileBase(fs[i])), FullProcess(FileBase(es[j]))>> :
                i \in DOMAIN fs, j \in DOMAIN es} :
        ~ScoreDecided(p[1], p[2])}

MfInit ==
    /\ FmtOff /\ TfOff /\ RdOff /\ RunOff
    /\ mf_pc = "start"
    /\ fundline_names \in DistinctSeqs(FundlineNamePool, MaxFundline)
    /\ excel_names \in DistinctSeqs(ExcelNamePool, MaxExcel) \ {<<>>}
    /\ score_env \in [UndecidedPairs(fundline_names, excel_names) -> ScoreValues]
    /\ matched_files = <<>>

MatchFiles ==
    /\ mf_pc = "start"
    /\ ~MatchRaises(fundline_names, excel_names)
    /\ matched_files' = match_files(fundline_names, excel_names, score_env)
    /\ mf_pc' = "matched"
    /\ UNCHANGED <<fundline_names, excel_names, score_env, exceptMf>>

SpecMatch == MfInit /\ [][MatchFiles]_vars

C2_Score(f, e) == ChoiceScore(FileBase(f), FileBase(e), score_env)
C2_Best(f) ==
    CHOOSE b \in 0..100 :
        /\ \E j \in DOMAIN excel_names : C2_Score(f, excel_names[j]) = b
        /\ \A j \in DOMAIN excel_names : C2_Score(f, excel_names[j]) <= b

\* C2: with a non-empty Partner collection, a pair (f, e) is emitted only if
\* e's extension-stripped, case-folded name scores highest for f's and that
\* best score is strictly greater than 80; a Fundline file whose best score
\* is 80 or less is in no pair, and every Fundline file is in at most one.
C2_MatchAboveThreshold ==
    mf_pc = "matched" =>
        /\ \A k \in DOMAIN matched_files :
              LET f == matched_files[k][1]
                  e == matched_files[k][2]
              IN  /\ f \in Range(fundline_names)
                  /\ e \in Range(excel_names)
                  /\ C2_Score(f, e) = C2_Best(f)
                  /\ C2_Best(f) > 80
        /\ \A i \in DOMAIN fundline_names :
              C2_Best(fundline_names[i]) <= 80 =>
                  \A k \in DOMAIN matched_files :
                      matched_files[k][1] # fundline_names[i]
        /\ \A k, l \in DOMAIN matched_files :
              matched_files[k][1] = matched_files[l][1] => k = l

\* one Fundline file is paired, through a case-folded name, and another,
\* whose best candidate scores exactly 80, is left out
C2_Witness ==
    /\ mf_pc = "matched"
    /\ Len(fundline_names) = 2
    /\ Len(matched_files) = 1
    /\ FileBase(matched_files[1][1]) = FileBase(matched_files[1][2])
    /\ matched_files[1][1] # matched_files[1][2]
    /\ \E i \in DOMAIN fundline_names : C2_Best(fundline_names[i]) = 80

(***************************************************************************)
(* read_files_from_upload (src/app.py 26-48) and date_converter (50-53).   *)
(* An uploaded file is [name, readable, sheets]; a sheet is the grid       *)
(* [width, rows] pd.read_excel(header=None) returns as a frame.            *)
(***************************************************************************)
MaxSheets == 2

\* pd.read_excel(uploaded_file, sheet_name=sheet_name, header=None)
ReadExcel(sheet) == [columns |-> RawColumns(sheet.width), rows |-> sheet.rows]

\* "Statement Month" and "Statement Year" are both column labels: a Date
\* column is added, the first day of that month (the labels of a frame read
\* with header=None are integers, so no frame of read_files_from_upload has
\* them)
date_converter(df) ==
    IF HasColumn(df, "Statement Month") /\ HasColumn(df, "Statement Year")
    THEN LET mc == ColumnIndex(df, "Statement Month")
             yc == ColumnIndex(df, "Statement Year")
         IN  [columns |-> Append(df.columns, StrCell("Date")),
              rows |-> [i \in DOMAIN df.rows |->
                          Append(df.rows[i],
                                 DateCell(372 * df.rows[i][yc].n
                                          + 31 * df.rows[i][mc].n + 1))]]
    ELSE df

\* pd.concat([a, b], ignore_index=True) of a frame without columns and rows
\* and any frame, or of two frames with equal columns
Concat(a, b) ==
    IF a.columns = <<>> /\ a.rows = <<>> THEN b
    ELSE IF b.columns = <<>> /\ b.rows = <<>> THEN a
    ELSE [columns |-> a.columns, rows |-> a.rows \o b.rows]

\* the mutant detects the header on every sheet
ReadSheetStepRedetect(acc, sheet) ==
    LET df == set_correct_headers(date_converter(ReadExcel(sheet)), column_mappings)
    IN  [raised |-> FALSE, detected |-> TRUE, header_set |-> TRUE,
         all_sheets_df |-> Concat(acc.all_sheets_df, df)]

\* one pass of the loop over excel_file.sheet_names, lines 35-42;
\* df.columns = all_sheets_df.columns raises when the lengths differ
ReadSheetStep(acc, sheet) ==
    LET df == date_converter(ReadExcel(sheet))
    IN  IF ~acc.header_set
        THEN [raised |-> FALSE, detected |-> TRUE, header_set |-> TRUE,
              all_sheets_df |->
                  Concat(acc.all_sheets_df, set_correct_headers(df, column_mappings))]
        ELSE IF Len(df.columns) # Len(acc.all_sheets_df.columns)
        THEN [raised |-> TRUE, detected |-> FALSE, header_set |-> TRUE,
              all_sheets_df |-> acc.all_sheets_df]
        ELSE [raised |-> FALSE, detected |-> FALSE, header_set |-> TRUE,
              all_sheets_df |->
                  Concat(acc.all_sheets_df,
                         [columns |-> acc.all_sheets_df.columns, rows |-> df.rows])]

\* the dict files_data keeps its keys in insertion order: a sequence of
\* [name, df]; files_data[name] = df
DictKeys(d) == [i \in DOMAIN d |-> d[i].name]
DictHas(d, name) == \E i \in DOMAIN d : d[i].name = name
DictGet(d, name) == d[CHOOSE i \in DOMAIN d : d[i].name = name].df
DictSet(d, name, df) ==
    IF DictHas(d, name)
    THEN [i \in DOMAIN d |-> IF d[i].name = name THEN [name |-> name, df |-> df] ELSE d[i]]
    ELSE Append(d, [name |-> name, df |-> df])

\* the sheets of one readable file from sheet k on: the frame to store, or
\* the exception that drops the file
RECURSIVE ReadSheets(_, _, _)
ReadSheets(acc, sheets, k) ==
    IF k > Len(sheets) THEN acc
    ELSE LET next == ReadSheetStep(acc, sheets[k])
         IN  IF next.raised THEN next ELSE ReadSheets(next, sheets, k + 1)

StartOfFile ==
    [raised |-> FALSE, detected |-> FALSE, header_set |-> FALSE,
     all_sheets_df |-> EmptyFrame]

\* the whole function: the loop over uploaded_files from file k on
RECURSIVE ReadFilesLoop(_, _, _)
ReadFilesLoop(data, files, k) ==
    IF k > Len(files) THEN data
    ELSE LET acc == ReadSheets(StartOfFile, files[k].sheets, 1)
         IN  ReadFilesLoop(
                 IF files[k].readable /\ ~acc.raised
                 THEN DictSet(data, files[k].name, acc.all_sheets_df)
                 ELSE data,
                 files, k + 1)

read_files_from_upload(files) == ReadFilesLoop(<<>>, files, 1)

Xlsx(base) == base \o <<".", "x", "l", "s", "x">>

Sheet(width, rows) == [width |-> width, rows |-> rows]

\* sheets of two columns: junk above the header row; data only; a repeated
\* header row; and a sheet of three columns and one without cells
SheetPool ==
    { Sheet(2, << <<StrCell("isin"), NaN>>,
                  <<StrCell("ISIN"), StrCell("Datum")>>,
                  <<StrCell("DE01"), DateCell(1)>> >>),
      Sheet(2, << <<StrCell("AT02"), DateCell(2)>> >>),
      Sheet(2, << <<StrCell("ISIN"), StrCell("Datum")>>,
                  <<StrCell("FR03"), DateCell(3)>> >>),
      Sheet(3, << <<StrCell("ISIN"), StrCell("Datum"), StrCell("Fee")>>,
                  <<StrCell("DE01"), DateCell(1), NumCell(5)>> >>),
      Sheet(0, <<>>) }

FirstUploads ==
    {[name |-> Xlsx(<<"a">>), readable |-> r, sheets |-> sheets] :
        r \in BOOLEAN, sheets \in SeqsUpTo(SheetPool, MaxSheets) \ {<<>>}}
SecondUploads ==
    {[name |-> Xlsx(<<"b">>), readable |-> TRUE, sheets |-> sheets] :
        sheets \in {q \in SeqsUpTo(SheetPool, MaxSheets) : Len(q) = MaxSheets}}

RdInit ==
    /\ FmtOff /\ TfOff /\ MfOff /\ RunOff
    /\ rd_pc = "file"
    /\ \E first \in FirstUploads :
          \/ uploaded_files = <<first>>
          \/ \E second \in SecondUploads :
                first.readable /\ uploaded_files = <<first, second>>
    /\ file_idx = 1
    /\ sheet_idx = 0
    /\ all_sheets_df = EmptyFrame
    /\ header_set = FALSE
    /\ files_data = <<>>
    /\ header_log = {}

\* pd.ExcelFile(uploaded_file) raises on a file that is no workbook: the
\* except clause logs and the loop goes on to the next file
OpenFile ==
    /\ rd_pc = "file" /\ file_idx <= Len(uploaded_files)
    /\ IF uploaded_files[file_idx].readable
       THEN /\ rd_pc' = "sheet" /\ sheet_idx' = 1
            /\ all_sheets_df' = EmptyFrame /\ header_set' = FALSE
            /\ UNCHANGED file_idx
       ELSE /\ file_idx' = file_idx + 1
            /\ UNCHANGED <<rd_pc, sheet_idx, all_sheets_df, header_set>>
    /\ UNCHANGED <<uploaded_files, files_data, header_log, exceptRd>>

ReadSheet ==
    /\ rd_pc = "sheet" /\ sheet_idx <= Len(uploaded_files[file_idx].sheets)
    /\ LET next == ReadSheetStep(
                       [header_set |-> header_set, all_sheets_df |-> all_sheets_df],
                       uploaded_files[file_idx].sheets[sheet_idx])
       IN  /\ header_log' = IF next.detected
                            THEN header_log \cup {<<file_idx, sheet_idx>>}
                            ELSE header_log
           /\ header_set' = next.header_set
           /\ all_sheets_df' = next.all_sheets_df
           /\ IF next.raised
              THEN rd_pc' = "file" /\ file_idx' = file_idx + 1 /\ UNCHANGED sheet_idx
              ELSE sheet_idx' = sheet_idx + 1 /\ UNCHANGED <<rd_pc, file_idx>>
    /\ UNCHANGED <<uploaded_files, files_data, exceptRd>>

\* files_data[uploaded_file.name] = all_sheets_df
StoreFile ==
    /\ rd_pc = "sheet" /\ sheet_idx > Len(uploaded_files[file_idx].sheets)
    /\ files_data' = DictSet(files_data, uploaded_files[file_idx].name, all_sheets_df)
    /\ rd_pc' = "file" /\ file_idx' = file_idx + 1
    /\ UNCHANGED <<uploaded_files, sheet_idx, all_sheets_df, header_set,
                   header_log, exceptRd>>

ReturnFilesData ==
    /\ rd_pc = "file" /\ file_idx > Len(uploaded_files)
    /\ rd_pc' = "returned"
    /\ UNCHANGED <<uploaded_files, file_idx, sheet_idx, all_sheets_df,
                   header_set, files_data, header_log, exceptRd>>

RdNext == OpenFile \/ ReadSheet \/ StoreFile \/ ReturnFilesData

SpecRead == RdInit /\ [][RdNext]_vars

\* the loop, step by step, returns what the function computes
ReadAgrees ==
    rd_pc = "returned" => files_data = read_files_from_upload(uploaded_files)

C10_Header(file) == set_correct_headers(ReadExcel(file.sheets[1]), column_mappings)

\* the rows of sheets 2..k as read, one sheet after the other
RECURSIVE C10_LaterRows(_, _)
C10_LaterRows(file, k) ==
    IF k < 2 THEN <<>> ELSE C10_LaterRows(file, k - 1) \o file.sheets[k].rows

\* the first sheet's column names over the first sheet's data rows followed
\* by the rows of sheets 2..k
C10_Combined(file, k) ==
    [columns |-> C10_Header(file).columns,
     rows |-> C10_Header(file).rows \o C10_LaterRows(file, k)]

C10_SameWidth(file) ==
    \A k \in 2..Len(file.sheets) :
        file.sheets[k].width = Len(C10_Header(file).columns)

C10_FirstSheetOnly == \A p \in header_log : p[2] = 1

\* C10 as claimed: header detection runs on the first sheet only, and EVERY
\* later sheet of a file gets the first sheet's column names, its rows
\* appended after those of all earlier sheets.
C10_EveryLaterSheet ==
    /\ C10_FirstSheetOnly
    /\ rd_pc = "returned" =>
          \A i \in DOMAIN uploaded_files :
              uploaded_files[i].readable =>
                  /\ DictHas(files_data, uploaded_files[i].name)
                  /\ DictGet(files_data, uploaded_files[i].name)
                        = C10_Combined(uploaded_files[i], Len(uploaded_files[i].sheets))

\* C10 as amended: header detection runs on the first sheet only; a later
\* sheet with as many columns as the first gets the first sheet's column
\* names and its rows are appended in sheet order; a later sheet with
\* another number of columns makes the assignment of the names raise, and
\* the file is left out of the result.
C10_LaterSheetsOfEqualWidth ==
    /\ C10_FirstSheetOnly
    /\ (rd_pc = "sheet" /\ sheet_idx > 1) =>
          all_sheets_df = C10_Combined(uploaded_files[file_idx], sheet_idx - 1)
    /\ rd_pc = "returned" =>
          \A i \in DOMAIN uploaded_files :
              LET file == uploaded_files[i]
              IN  IF file.readable /\ C10_SameWidth(file)
                  THEN /\ DictHas(files_data, file.name)
                       /\ DictGet(files_data, file.name)
                             = C10_Combined(file, Len(file.sheets))
                  ELSE ~DictHas(files_data, file.name)

\* a stored file of two sheets whose second sheet repeats the header row:
\* the row is data there, under the names found in the first sheet
C10_Witness ==
    /\ rd_pc = "returned"
    /\ Len(uploaded_files[1].sheets) = 2
    /\ Len(uploaded_files[1].sheets[1].rows) = 3
    /\ DictHas(files_data, Xlsx(<<"a">>))
    /\ DictGet(files_data, Xlsx(<<"a">>)).columns = <<StrCell("ISIN"), StrCell("Datum")>>
    /\ DictGet(files_data, Xlsx(<<"a">>)).rows =
          << <<StrCell("isin"), NaN>>, <<StrCell("DE01"), DateCell(1)>>,
             <<StrCell("ISIN"), StrCell("Datum")>>, <<StrCell("FR03"), DateCell(3)>> >>
    /\ header_log = {<<1, 1>>}

(***************************************************************************)
(* convert_date_column (src/app.py 81-84) and the pandas operations of     *)
(* compare_data: groupby(...)[measure].sum().reset_index() and             *)
(* pd.merge(how='inner').  Amounts are integers; a date is the number of   *)
(* its day.                                                                *)
(***************************************************************************)
\* the day a string is under format='%d.%m.%Y', NaT under errors='coerce'
\* when it does not match the format
ParseDate(s) ==
    CASE s = "01.01.2024" -> DateCell(1)
      [] s = "1.1.2024" -> DateCell(1)
      [] s = "01.02.2024" -> DateCell(32)
      [] OTHER -> NaN

\* pd.to_datetime(..., errors='coerce', format='%d.%m.%Y') of one cell
ToDatetime(c) ==
    IF c.t = "date" THEN c
    ELSE IF c.t = "str" THEN ParseDate(c.s)
    ELSE NaN

convert_date_column(df, date_column_name) ==
    IF HasColumn(df, date_column_name)
    THEN LET dc == ColumnIndex(df, date_column_name)
         IN  [columns |-> df.columns,
              rows |-> [i \in DOMAIN df.rows |->
                          [j \in DOMAIN df.rows[i] |->
                              IF j = dc THEN ToDatetime(df.rows[i][j])
                              ELSE df.rows[i][j]]]]
    ELSE df

\* the characters of identifiers in ascending code order
CharOrder == <<" ">> \o DigitChar \o UpperLetters \o <<"_">> \o LowerLetters
CharRank(c) == CHOOSE i \in DOMAIN CharOrder : CharOrder[i] = c

RECURSIVE CharsLess(_, _)
CharsLess(a, b) ==
    IF b = <<>> THEN FALSE
    ELSE IF a = <<>> THEN TRUE
    ELSE IF a[1] = b[1] THEN CharsLess(Tail(a), Tail(b))
    ELSE CharRank(a[1]) < CharRank(b[1])

\* the order groupby sorts its keys in: strings, dates or numbers
CellLess(a, b) ==
    IF a.t = "str" THEN CharsLess(Chars(a.s), Chars(b.s))
    ELSE IF a.t = "date" THEN a.d < b.d
    ELSE a.n < b.n

RECURSIVE KeyLess(_, _)
KeyLess(a, b) ==
    IF a = <<>> THEN FALSE
    ELSE IF a[1] = b[1] THEN KeyLess(Tail(a), Tail(b))
    ELSE CellLess(a[1], b[1])

RECURSIVE SortKeys(_)
SortKeys(S) ==
    IF S = {} THEN <<>>
    ELSE LET least == CHOOSE k \in S : \A other \in S \ {k} : KeyLess(k, other)
         IN  <<least>> \o SortKeys(S \ {least})

\* a missing label makes groupby or the column selection raise KeyError
GroupByRaises(df, key_names, measure) ==
    \/ \E k \in DOMAIN key_names : ~HasColumn(df, key_names[k])
    \/ ~HasColumn(df, measure)

RowKey(df, key_names, row) ==
    [k \in DOMAIN key_names |-> row[ColumnIndex(df, key_names[k])]]

\* sum() skips missing values
RECURSIVE SumMeasure(_, _, _, _, _)
SumMeasure(df, key_names, mc, key, i) ==
    IF i = 0 THEN 0
    ELSE SumMeasure(df, key_names, mc, key, i - 1)
         + (IF RowKey(df, key_names, df.rows[i]) = key /\ df.rows[i][mc].t = "num"
            THEN df.rows[i][mc].n ELSE 0)

\* df.groupby(key_names)[measure].sum().reset_index(): rows with a missing
\* key are left out, one row per key, keys ascending
GroupBySum(df, key_names, measure) ==
    LET keys == {RowKey(df, key_names, df.rows[i]) : i \in DOMAIN df.rows}
        present == {key \in keys : \A k \in DOMAIN key : ~IsNull(key[k])}
        sorted == SortKeys(present)
        mc == ColumnIndex(df, measure)
    IN  [columns |-> [k \in DOMAIN key_names |-> StrCell(key_names[k])]
                         \o <<StrCell(measure)>>,
         rows |-> [i \in DOMAIN sorted |->
                     sorted[i] \o
                         <<NumCell(SumMeasure(df, key_names, mc, sorted[i], Len(df.rows)))>>]]

DifferenceReversed(excel_value, fundline_value) == fundline_value - excel_value

\* comparison_df[excel_column] - comparison_df[fundline_column]
Difference(excel_value, fundline_value) == excel_value - fundline_value

\* pd.merge(left, right, on=the nk key columns, how='inner') of two
\* aggregates (their keys are unique) with the Difference column added:
\* the keys of both, in the order of the left frame
MergeInner(left, right, nk) ==
    LET Key(row) == SubSeq(row, 1, nk)
        kept == FilterRows(left.rows,
                    {row \in Range(left.rows) :
                        \E j \in DOMAIN right.rows : Key(right.rows[j]) = Key(row)})
    IN  [i \in DOMAIN kept |->
            LET other == right.rows[CHOOSE j \in DOMAIN right.rows :
                                        Key(right.rows[j]) = Key(kept[i])]
            IN  kept[i] \o <<other[nk + 1],
                             NumCell(Difference(other[nk + 1].n, kept[i][nk + 1].n))>>]

UnderscoreComparison ==
    <<"_", "c", "o", "m", "p", "a", "r", "i", "s", "o", "n", ".", "x", "l", "s", "x">>

\* f"{splitext(fundline_file)[0]}_{splitext(excel_file)[0]}_comparison.xlsx"
ComparisonName(fundline_file, excel_file) ==
    SplitExtRoot(fundline_file) \o <<"_">> \o SplitExtRoot(excel_file)
        \o UnderscoreComparison

\* one pass of the loop over matched_files, lines 121-184.  rename_columns
\* and convert_date_column change the frames of fundline_data and
\* excel_data in place.
ComparePairStep(fundline_file, excel_file, fundline_df0, excel_df0) ==
    LET fundline_df == convert_date_column(
                           rename_columns(fundline_df0, column_mappings), "Date")
        excel_df == convert_date_column(
                        rename_columns(excel_df0, column_mappings), "Date")
        keys == <<"Isin Code", "Date">>
        base == [fundline_df |-> fundline_df, excel_df |-> excel_df,
                 fundline_agg |-> EmptyFrame, excel_agg |-> EmptyFrame,
                 detail |-> <<>>, summary |-> <<>>, files |-> <<>>,
                 outcome |-> "none"]
    IN  IF \/ GroupByRaises(fundline_df, keys, "Erwartete Prov. Whg")
           \/ GroupByRaises(excel_df, keys, "Provision")
        THEN [base EXCEPT !.outcome = "KeyError"]
        ELSE LET fundline_agg == GroupBySum(fundline_df, keys, "Erwartete Prov. Whg")
                 excel_agg == GroupBySum(excel_df, keys, "Provision")
             IN  IF /\ HasColumn(fundline_agg, "Isin Code") /\ HasColumn(fundline_agg, "Date")
                    /\ HasColumn(excel_agg, "Isin Code") /\ HasColumn(excel_agg, "Date")
                 THEN LET comparison_df == MergeInner(fundline_agg, excel_agg, 2)
                          quartal_aggregated_df ==
                              MergeInner(
                                  GroupBySum(fundline_agg, <<"Isin Code">>, "Erwartete Prov. Whg"),
                                  GroupBySum(excel_agg, <<"Isin Code">>, "Provision"), 1)
                          result == [base EXCEPT !.fundline_agg = fundline_agg,
                                                 !.excel_agg = excel_agg,
                                                 !.detail = comparison_df,
                                                 !.summary = quartal_aggregated_df]
                      IN  IF comparison_df # <<>>
                          THEN [result EXCEPT
                                  !.outcome = "written",
                                  !.files = <<[name |-> ComparisonName(fundline_file, excel_file),
                                               Quartal |-> quartal_aggregated_df,
                                               Einzeln |-> comparison_df,
                                               QuartalRules |->
                                                   ConditionalRules(quartal_aggregated_df,
                                                                    LowerDefault, UpperDefault),
                                               EinzelnRules |->
                                                   ConditionalRules(comparison_df,
                                                                    LowerDefault, UpperDefault)]>>]
                          ELSE [result EXCEPT !.outcome = "empty"]
                 ELSE [base EXCEPT !.fundline_agg = fundline_agg,
                                   !.excel_agg = excel_agg,
                                   !.outcome = "Required columns not found"]

(***************************************************************************)
(* compare_data (src/app.py 112-186) and the "Run Comparison" handler      *)
(* (227-246)                                                               *)
(***************************************************************************)
MaxUploads == 2

Write(text) == [kind |-> "write", text |-> text]
DownloadButton(file) == [kind |-> "download_button", file_name |-> file.name, data |-> file]

\* lines 239-246: what the handler shows for the list compare_data returned
ShowResults(files) ==
    IF files # <<>>
    THEN <<Write("Comparison results:")>> \o [i \in DOMAIN files |-> DownloadButton(files[i])]
    ELSE <<Write("No discrepancies found.")>>

OneSheetFile(base, readable, rows) ==
    [name |-> Xlsx(base), readable |-> readable, sheets |-> <<Sheet(3, rows)>>]

\* Fundline uploads: Q1 (two periods of DE01, one amount split over two
\* rows, and AT02), r2 (AT02 only), s3 (no header row), u (no workbook)
FundlinePool ==
    { OneSheetFile(<<"Q", "1">>, TRUE,
          << <<StrCell("ISIN"), StrCell("Datum"), StrCell("Erwartete Prov. Whg")>>,
             <<StrCell("DE01"), StrCell("01.01.2024"), NumCell(60)>>,
             <<StrCell("AT02"), StrCell("01.01.2024"), NumCell(7)>>,
             <<StrCell("DE01"), StrCell("01.02.2024"), NumCell(50)>>,
             <<StrCell("DE01"), StrCell("1.1.2024"), NumCell(40)>> >>),
      OneSheetFile(<<"r", "2">>, TRUE,
          << <<StrCell("ISIN"), StrCell("Datum"), StrCell("Erwartete Prov. Whg")>>,
             <<StrCell("AT02"), StrCell("01.01.2024"), NumCell(7)>> >>),
      OneSheetFile(<<"s", "3">>, TRUE,
          << <<StrCell("DE01"), StrCell("01.01.2024"), NumCell(60)>> >>),
      OneSheetFile(<<"u">>, FALSE, <<>>) }

\* Partner uploads: q1 (DE01 in both periods and FR03), r2 (FR03 only), s3
\* (no column that maps to 'Provision'), zz (as r2, under a name that
\* matches no Fundline name), u (no workbook)
ExcelPool ==
    { [name |-> <<"q", "1", ".", "X", "L", "S", "X">>, readable |-> TRUE,
       sheets |-> <<Sheet(3,
          << <<StrCell("Isin"), StrCell("Date"), StrCell("Fee")>>,
             <<StrCell("DE01"), StrCell("01.01.2024"), NumCell(110)>>,
             <<StrCell("DE01"), StrCell("01.02.2024"), NumCell(20)>>,
             <<StrCell("FR03"), StrCell("01.01.2024"), NumCell(9)>> >>)>>],
      OneSheetFile(<<"r", "2">>, TRUE,
          << <<StrCell("Isin"), StrCell("Date"), StrCell("Fee")>>,
             <<StrCell("FR03"), StrCell("01.01.2024"), NumCell(9)>> >>),
      OneSheetFile(<<"s", "3">>, TRUE,
          << <<StrCell("ISIN"), StrCell("Datum"), StrCell("Other")>>,
             <<StrCell("DE01"), StrCell("01.01.2024"), NumCell(60)>> >>),
      OneSheetFile(<<"z", "z">>, TRUE,
          << <<StrCell("Isin"), StrCell("Date"), StrCell("Fee")>>,
             <<StrCell("FR03"), StrCell("01.01.2024"), NumCell(9)>> >>),
      OneSheetFile(<<"u">>, FALSE, <<>>) }

UploadNames(files) == [i \in DOMAIN files |-> files[i].name]

RunInit ==
    /\ FmtOff /\ TfOff /\ RdOff
    /\ run_pc = "idle"
    /\ fundline_uploads \in DistinctSeqs(FundlinePool, MaxUploads)
    /\ excel_uploads \in DistinctSeqs(ExcelPool, MaxUploads)
    /\ fundline_data = <<>> /\ excel_data = <<>>
    /\ pair_idx = 0 /\ pair_log = <<>> /\ comparison_files = <<>> /\ shown = <<>>
    /\ mf_pc = "off" /\ fundline_names = <<>> /\ excel_names = <<>>
    /\ matched_files = <<>>
    /\ score_env \in [UndecidedPairs(UploadNames(fundline_uploads),
                                     UploadNames(excel_uploads)) -> ScoreValues]

\* the button: lines 227-233
RunComparison ==
    /\ run_pc = "idle"
    /\ IF fundline_uploads = <<>> \/ excel_uploads = <<>>
       THEN /\ shown' = <<[kind |-> "error",
                           text |-> "Please upload files before running the comparison."]>>
            /\ run_pc' = "done"
            /\ UNCHANGED <<fundline_data, excel_data>>
       ELSE /\ fundline_data' = read_files_from_upload(fundline_uploads)
            /\ excel_data' = read_files_from_upload(excel_uploads)
            /\ run_pc' = "compare_data"
            /\ UNCHANGED shown
    /\ UNCHANGED <<fundline_uploads, excel_uploads, pair_idx, pair_log,
                   comparison_files, mfVars, fmtVars, tfVars, rdVars>>

\* compare_data, lines 114-118
MatchUploadedFiles ==
    /\ run_pc = "compare_data"
    /\ fundline_names' = DictKeys(fundline_data)
    /\ excel_names' = DictKeys(excel_data)
    /\ IF MatchRaises(DictKeys(fundline_data), DictKeys(excel_data))
       THEN /\ run_pc' = "raised"
            /\ shown' = <<[kind |-> "exception", text |-> "TypeError"]>>
            /\ UNCHANGED <<matched_files, mf_pc, pair_idx>>
       ELSE /\ matched_files' =
                  match_files(DictKeys(fundline_data), DictKeys(excel_data), score_env)
            /\ mf_pc' = "matched"
            /\ pair_idx' = 1
            /\ run_pc' = "pairs"
            /\ UNCHANGED shown
    /\ UNCHANGED <<fundline_uploads, excel_uploads, fundline_data, excel_data,
                   pair_log, comparison_files, score_env, fmtVars, tfVars, rdVars>>

\* compare_data, one matched pair: lines 120-184
ComparePair ==
    /\ run_pc = "pairs" /\ pair_idx <= Len(matched_files)
    /\ LET fundline_file == matched_files[pair_idx][1]
           excel_file == matched_files[pair_idx][2]
           step == ComparePairStep(fundline_file, excel_file,
                                   DictGet(fundline_data, fundline_file),
                                   DictGet(excel_data, excel_file))
       IN  /\ fundline_data' = DictSet(fundline_data, fundline_file, step.fundline_df)
           /\ excel_data' = DictSet(excel_data, excel_file, step.excel_df)
           /\ pair_log' = Append(pair_log, step)
           /\ comparison_files' = comparison_files \o step.files
           /\ IF step.outcome = "KeyError"
              THEN /\ run_pc' = "raised"
                   /\ shown' = <<[kind |-> "exception", text |-> "KeyError"]>>
                   /\ UNCHANGED pair_idx
              ELSE /\ pair_idx' = pair_idx + 1
                   /\ UNCHANGED <<run_pc, shown>>
    /\ UNCHANGED <<fundline_uploads, excel_uploads, mfVars, fmtVars, tfVars, rdVars>>

\* return comparison_files, and the handler's lines 238-246
ShowComparison ==
    /\ run_pc = "pairs" /\ pair_idx > Len(matched_files)
    /\ shown' = ShowResults(comparison_files)
    /\ run_pc' = "done"
    /\ UNCHANGED <<fundline_uploads, excel_uploads, fundline_data, excel_data,
                   pair_idx, pair_log, comparison_files, mfVars, fmtVars, tfVars,
                   rdVars>>

RunNext == RunComparison \/ MatchUploadedFiles \/ ComparePair \/ ShowComparison

SpecRun == RunInit /\ [][RunNext]_vars

C3_Keys(agg) == {SubSeq(agg.rows[i], 1, 2) : i \in DOMAIN agg.rows}

\* the sum of the measure over the rows of df whose (identifier, period) is
\* key, the rows taken one by one
RECURSIVE C3_Total(_, _, _, _)
C3_Total(df, measure, key, todo) ==
    IF todo = {} THEN 0
    ELSE LET i == CHOOSE i \in todo : TRUE
             row == df.rows[i]
             ic == CHOOSE j \in DOMAIN df.columns : df.columns[j] = StrCell("Isin Code")
             dc == CHOOSE j \in DOMAIN df.columns : df.columns[j] = StrCell("Date")
             mc == CHOOSE j \in DOMAIN df.columns : df.columns[j] = StrCell(measure)
         IN  (IF <<row[ic], row[dc]>> = key /\ row[mc].t = "num" THEN row[mc].n ELSE 0)
                 + C3_Total(df, measure, key, todo \ {i})

C3_Compared(entry) == entry.outcome \in {"written", "empty"}

\* C3: the detail result of a matched pair has exactly one row for each
\* (identifier, period) key of BOTH aggregates and none for a key of one side
\* only, and in every row difference = partner_total - fundline_total, each
\* total the sum of that side's measure over the rows with that key.
C3_InnerJoinDifference ==
    \A p \in DOMAIN pair_log :
        LET entry == pair_log[p]
            both == C3_Keys(entry.fundline_agg) \cap C3_Keys(entry.excel_agg)
        IN  C3_Compared(entry) =>
              /\ \A key \in both :
                    Cardinality({i \in DOMAIN entry.detail :
                                    SubSeq(entry.detail[i], 1, 2) = key}) = 1
              /\ \A i \in DOMAIN entry.detail :
                    LET key == SubSeq(entry.detail[i], 1, 2)
                        fundline_total ==
                            C3_Total(entry.fundline_df, "Erwartete Prov. Whg", key,
                                     DOMAIN entry.fundline_df.rows)
                        partner_total ==
                            C3_Total(entry.excel_df, "Provision", key,
                                     DOMAIN entry.excel_df.rows)
                    IN  /\ key \in both
                        /\ entry.detail[i][3].n = fundline_total
                        /\ entry.detail[i][4].n = partner_total
                        /\ entry.detail[i][5].n = partner_total - fundline_total
              /\ entry.outcome = "written" => entry.files[1].Einzeln = entry.detail

\* the pair Q1 / q1: DE01 is on both sides in two periods, AT02 on the
\* Fundline side only, FR03 on the Partner side only
C3_Witness ==
    \E p \in DOMAIN pair_log :
        /\ pair_log[p].outcome = "written"
        /\ Len(pair_log[p].fundline_agg.rows) = 3
        /\ Len(pair_log[p].excel_agg.rows) = 3
        /\ pair_log[p].detail =
              << <<StrCell("DE01"), DateCell(1), NumCell(100), NumCell(110), NumCell(10)>>,
                 <<StrCell("DE01"), DateCell(32), NumCell(50), NumCell(20), NumCell(-30)>> >>
        /\ pair_log[p].summary =
              << <<StrCell("DE01"), NumCell(150), NumCell(130), NumCell(-20)>> >>

C4_Identifiers(df) ==
    IF \E j \in DOMAIN df.columns : df.columns[j] = StrCell("Isin Code")
    THEN {df.rows[i][CHOOSE j \in DOMAIN df.columns : df.columns[j] = StrCell("Isin Code")] :
              i \in DOMAIN df.rows}
    ELSE {}

\* what the consumer gets from a run in which no files were matched:
\* compare_data's loop does not run and returns the empty list
C4_NoMatchResult == [comparison_files |-> <<>>, shown |-> ShowResults(<<>>)]

C4_DisjointRun ==
    /\ run_pc = "done"
    /\ matched_files # <<>>
    /\ Len(pair_log) = Len(matched_files)
    /\ \A p \in DOMAIN pair_log :
          /\ C4_Identifiers(pair_log[p].fundline_df) # {}
          /\ C4_Identifiers(pair_log[p].excel_df) # {}
          /\ C4_Identifiers(pair_log[p].fundline_df)
                \cap C4_Identifiers(pair_log[p].excel_df) = {}

\* C4: a run whose matched files have disjoint identifier sets yields an
\* empty detail and an empty summary, and its result differs from that of a
\* run in which no files were matched.
C4_NoOverlapDistinguishable ==
    C4_DisjointRun =>
        /\ \A p \in DOMAIN pair_log :
              pair_log[p].detail = <<>> /\ pair_log[p].summary = <<>>
        /\ [comparison_files |-> comparison_files, shown |-> shown] # C4_NoMatchResult

\* C5: no exception propagates out of read_files_from_upload or
\* compare_data: every run with a file on each side completes, whatever
\* files are unreadable, lack columns, stay unmatched or share no key.
C5_NoExceptionPropagates == run_pc # "raised"

C6_Lacks(df, names) == \E n \in names : ~(StrCell(n) \in Range(df.columns))
C6_LacksRequired(entry) ==
    \/ C6_Lacks(entry.fundline_df, {"Isin Code", "Date", "Erwartete Prov. Whg"})
    \/ C6_Lacks(entry.excel_df, {"Isin Code", "Date", "Provision"})

\* C6: a matched pair with a file that lacks a required field after column
\* mapping is skipped with 'required columns not found', without a crash,
\* and the pairs after it are compared.
C6_MissingColumnsSkipped ==
    \A p \in DOMAIN pair_log :
        C6_LacksRequired(pair_log[p]) =>
            /\ pair_log[p].outcome = "Required columns not found"
            /\ run_pc # "raised"
            /\ run_pc = "done" => Len(pair_log) = Len(matched_files)

====
